---- MODULE Spec2Model ----
(***************************************************************************)
(* k_Sequitur grammar induction (utilities/grammar_algorithms/k_Sequitur.py) *)
(* One engine instance, its rule-name counter, and calls of                *)
(* generate_action_grammar, one step per iteration of its while loop.      *)
(***************************************************************************)
EXTENDS Integers, Sequences, FiniteSets, TLC

\* Bounds of the model: longest enumerated input, largest k, calls per engine.
MaxLen == 6
MaxK == 3
MaxCalls == 2

(***************************************************************************)
(* Symbols.  Python mixes int actions, the str marker "/" and str rule     *)
(* names "R0", "R1", ...; a symbol is a record of its Python type and its  *)
(* value so that all three are comparable and pairwise distinct.           *)
(***************************************************************************)
IntSym(n) == [kind |-> "int", id |-> n]

\* "R{}".format(ix): one distinct string per counter value
RuleName(ix) == [kind |-> "R", id |-> ix]

\* the default end_of_episode_symbol="/"
end_of_episode_symbol == [kind |-> "str", id |-> 0]

\* isinstance(x, int)
IsInt(x) == x.kind = "int"

\* Python's None (never equal to a list of actions or to a pair)
None == <<>>

\* list indexing with a 0-based index; a negative index counts from the end
Item(string, ix) == IF ix < 0 THEN string[Len(string) + ix + 1] ELSE string[ix + 1]

\* A local variable: x is evaluated once and body applied to its value.
Bind(x, body(_)) == CHOOSE r \in {body(v) : v \in {x}} : TRUE

\* defaultdict(int): reading a missing key gives 0
Get(d, key) == IF key \in DOMAIN d THEN d[key] ELSE 0

\* d[key] += n on a defaultdict(int)
Add(d, key, n) ==
  [x \in (DOMAIN d) \cup {key} |-> IF x = key THEN Get(d, key) + n ELSE d[x]]

\* rules.values()
Values(rules) == {rules[r] : r \in DOMAIN rules}

\* A dict whose insertion order matters is a sequence of <<key, value>> items.
Keys(items) == {items[i][1] : i \in 1..Len(items)}

ItemValue(items, key) ==
  LET i == CHOOSE j \in 1..Len(items) : items[j][1] = key IN items[i][2]

\* d[key] += n on an insertion-ordered defaultdict(int)
OrderedAdd(items, key, n) ==
  IF key \in Keys(items)
  THEN [i \in 1..Len(items) |->
          IF items[i][1] = key THEN <<key, items[i][2] + n>> ELSE items[i]]
  ELSE Append(items, <<key, n>>)

VARIABLES
  k,                  \* self.k
  next_rule_name_ix,  \* self.next_rule_name_ix
  pc,                 \* "idle", "loop", "returned", "rejected" (AssertionError)
  actions,            \* the argument of the current call
  all_rules,          \* rule name -> pair
  current_actions,
  new_actions,
  rule_usage,         \* insertion-ordered: rule name -> times fired
  action_usage,       \* tuple of raw actions -> count
  passes,             \* iterations of the while loop in the current call
  calls,              \* calls of generate_action_grammar on this engine
  ix_at_call          \* next_rule_name_ix when the current call started

vars == <<k, next_rule_name_ix, pc, actions, all_rules, current_actions,
          new_actions, rule_usage, action_usage, passes, calls, ix_at_call>>

(***************************************************************************)
(* get_next_rule_name: the name to use, and the incremented counter.       *)
(***************************************************************************)
get_next_rule_name(ix) == [rule_name |-> RuleName(ix), next_rule_name_ix |-> ix + 1]

(***************************************************************************)
(* generate_1_layer_of_rules.  The locals of the scan are the record       *)
(*   [pairs_of_symbols, last_pair, skip_next_symbol, rules,                *)
(*    next_rule_name_ix].                                                  *)
(***************************************************************************)
\* LayerPair with the two elements in the wrong order
SwappedLayerPair(string, ix) == <<Item(string, ix + 1), Item(string, ix)>>

\* pair = (string[ix], string[ix+1])
LayerPair(string, ix) == <<Item(string, ix), Item(string, ix + 1)>>

\* previous_pair = (string[ix-1], string[ix]); at ix = 0 string[-1] is the
\* last element of the list
PreviousPair(string, ix) == <<Item(string, ix - 1), Item(string, ix)>>

\* CountPair whose else branch leaves last_pair as it was
CountPairKeepLast(st, pair) ==
  IF pair # st.last_pair
  THEN [st EXCEPT !.pairs_of_symbols = Add(@, pair, 1), !.last_pair = pair]
  ELSE st

\* if pair != last_pair: count it and remember it; else: forget last_pair
CountPair(st, pair) ==
  IF pair # st.last_pair
  THEN [st EXCEPT !.pairs_of_symbols = Add(@, pair, 1), !.last_pair = pair]
  ELSE [st EXCEPT !.last_pair = None]

\* if pair not in rules.values(): rules[self.get_next_rule_name()] = pair
MintRule(st, pair) ==
  IF pair \notin Values(st.rules)
  THEN LET n == get_next_rule_name(st.next_rule_name_ix)
       IN [st EXCEPT !.rules = (n.rule_name :> pair) @@ @,
                     !.next_rule_name_ix = n.next_rule_name_ix]
  ELSE st

\* the body of the for loop at index ix, with self.k = kk
LayerStep(string, kk, ix, st) ==
  IF st.skip_next_symbol THEN [st EXCEPT !.skip_next_symbol = FALSE]
  ELSE IF Item(string, ix + 1) = end_of_episode_symbol THEN st
  ELSE LET pair == LayerPair(string, ix)
           counted == CountPair(st, pair)
       IN IF Get(counted.pairs_of_symbols, pair) >= kk
          THEN MintRule(
                 [counted EXCEPT
                    !.pairs_of_symbols = Add(@, PreviousPair(string, ix), -1),
                    !.skip_next_symbol = TRUE],
                 pair)
          ELSE counted

\* for ix in range(len(string) - 1)
RECURSIVE LayerScan(_, _, _, _)
LayerScan(string, kk, ix, st) ==
  IF ix >= Len(string) - 1 THEN st
  ELSE Bind(LayerStep(string, kk, ix, st),
            LAMBDA next : LayerScan(string, kk, ix + 1, next))

\* reverse_rules = {v: k for k, v in rules.items()}
ReverseRules(rules) ==
  [p \in Values(rules) |-> CHOOSE r \in DOMAIN rules : rules[r] = p]

generate_1_layer_of_rules(string, kk, ix0) ==
  Bind(LayerScan(string, kk, 0,
                 [pairs_of_symbols |-> <<>>, last_pair |-> None,
                  skip_next_symbol |-> FALSE, rules |-> <<>>,
                  next_rule_name_ix |-> ix0]),
       LAMBDA st : [rules |-> st.rules, reverse_rules |-> ReverseRules(st.rules),
                    next_rule_name_ix |-> st.next_rule_name_ix])

(***************************************************************************)
(* convert_a_string_using_reverse_rules.  The locals of the scan are the   *)
(* record [new_string, skip_next_element, rules_usage_count].              *)
(***************************************************************************)
\* d[key] = n on an insertion-ordered dict
OrderedSet(items, key, n) ==
  IF key \in Keys(items)
  THEN [i \in 1..Len(items) |-> IF items[i][1] = key THEN <<key, n>> ELSE items[i]]
  ELSE Append(items, <<key, n>>)

\* ConvertStep that sets a rule's count to 1 where the code adds 1
ConvertStepCountOnce(string, reverse_rules, ix, st) ==
  IF st.skip_next_element THEN [st EXCEPT !.skip_next_element = FALSE]
  ELSE IF ix = Len(string) - 1
  THEN [st EXCEPT !.new_string = Append(@, Item(string, ix))]
  ELSE LET pair == <<Item(string, ix), Item(string, ix + 1)>>
       IN IF pair \in DOMAIN reverse_rules
          THEN LET result == reverse_rules[pair]
               IN [st EXCEPT !.rules_usage_count = OrderedSet(@, result, 1),
                             !.new_string = Append(@, result),
                             !.skip_next_element = TRUE]
          ELSE [st EXCEPT !.new_string = Append(@, Item(string, ix))]

\* the body of the for loop at index ix
ConvertStep(string, reverse_rules, ix, st) ==
  IF st.skip_next_element THEN [st EXCEPT !.skip_next_element = FALSE]
  ELSE IF ix = Len(string) - 1
  THEN [st EXCEPT !.new_string = Append(@, Item(string, ix))]
  ELSE LET pair == <<Item(string, ix), Item(string, ix + 1)>>
       IN IF pair \in DOMAIN reverse_rules
          THEN LET result == reverse_rules[pair]
               IN [st EXCEPT !.rules_usage_count = OrderedAdd(@, result, 1),
                             !.new_string = Append(@, result),
                             !.skip_next_element = TRUE]
          ELSE [st EXCEPT !.new_string = Append(@, Item(string, ix))]

\* for ix in range(len(string))
RECURSIVE ConvertScan(_, _, _, _)
ConvertScan(string, reverse_rules, ix, st) ==
  IF ix >= Len(string) THEN st
  ELSE Bind(ConvertStep(string, reverse_rules, ix, st),
            LAMBDA next : ConvertScan(string, reverse_rules, ix + 1, next))

convert_a_string_using_reverse_rules(string, reverse_rules) ==
  Bind(ConvertScan(string, reverse_rules, 0,
                   [new_string |-> <<>>, skip_next_element |-> FALSE,
                    rules_usage_count |-> <<>>]),
       LAMBDA st : [new_string |-> st.new_string,
                    rules_usage_count |-> st.rules_usage_count])

(***************************************************************************)
(* convert_symbol_to_raw_actions.                                          *)
(***************************************************************************)
\* ExpandSymbolVal that appends the two halves of a rule in the wrong order
SwappedExpandSymbolVal(symbol_val, rules) ==
  IF symbol_val \in DOMAIN rules
  THEN <<rules[symbol_val][2], rules[symbol_val][1]>>
  ELSE <<symbol_val>>

\* what one symbol_val contributes to new_symbol
ExpandSymbolVal(symbol_val, rules) ==
  IF symbol_val \in DOMAIN rules
  THEN <<rules[symbol_val][1], rules[symbol_val][2]>>
  ELSE <<symbol_val>>

\* for symbol_val in symbol: one full pass over the working list
RECURSIVE ExpandPass(_, _)
ExpandPass(symbol, rules) ==
  IF symbol = <<>> THEN <<>>
  ELSE ExpandSymbolVal(Head(symbol), rules) \o ExpandPass(Tail(symbol), rules)

\* while not finished
RECURSIVE ExpandLoop(_, _)
ExpandLoop(symbol, rules) ==
  Bind(ExpandPass(symbol, rules),
       LAMBDA new_symbol :
         IF new_symbol = symbol THEN new_symbol ELSE ExpandLoop(new_symbol, rules))

convert_symbol_to_raw_actions(symbol, rules) == ExpandLoop(<<symbol>>, rules)

(***************************************************************************)
(* generate_action_grammar.                                                *)
(***************************************************************************)
\* for key in rules_usage_count.keys(): rule_usage[key] += rules_usage_count[key]
RECURSIVE AccumulateUsage(_, _)
AccumulateUsage(usage, rules_usage_count) ==
  IF rules_usage_count = <<>> THEN usage
  ELSE Bind(OrderedAdd(usage, Head(rules_usage_count)[1], Head(rules_usage_count)[2]),
            LAMBDA next : AccumulateUsage(next, Tail(rules_usage_count)))

\* for key in rule_usage.keys():
\*     action_usage[self.convert_symbol_to_raw_actions(key, all_rules)] = rule_usage[key]
RECURSIVE BuildActionUsage(_, _, _)
BuildActionUsage(usage, rules, acc) ==
  IF usage = <<>> THEN acc
  ELSE BuildActionUsage(
         Tail(usage), rules,
         (convert_symbol_to_raw_actions(Head(usage)[1], rules) :> Head(usage)[2]) @@ acc)

\* ArgumentAccepted without the assert on the type of actions[0]
NoTypeAssert(acts) == Len(acts) > 0

\* the three asserts on the argument (isinstance(actions, list) always holds)
ArgumentAccepted(acts) == Len(acts) > 0 /\ IsInt(acts[1])

\* LoopContinues of a loop that never compares the two lists
AlwaysContinues(new, current) == TRUE

\* while new_actions != current_actions
LoopContinues(new, current) == new # current

\* The lists a first call is given: every list of at most MaxLen symbols over
\* two actions and the marker, and the example of the header comment
\* ("abddddeabde" with a, b, d, e as 0, 1, 2, 3).
Alphabet == {IntSym(0), IntSym(1), end_of_episode_symbol}

Example ==
  <<IntSym(0), IntSym(1), IntSym(2), IntSym(2), IntSym(2), IntSym(2), IntSym(3),
    IntSym(0), IntSym(1), IntSym(2), IntSym(3)>>

Inputs == UNION {[1..n -> Alphabet] : n \in 0..MaxLen} \cup {Example}

\* k_Sequitur(k): the engine after construction, nothing called yet
Init ==
  /\ k \in 1..MaxK
  /\ next_rule_name_ix = 0
  /\ pc = "idle"
  /\ actions = None
  /\ all_rules = <<>>
  /\ current_actions = None
  /\ new_actions = None
  /\ rule_usage = <<>>
  /\ action_usage = <<>>
  /\ passes = 0
  /\ calls = 0
  /\ ix_at_call = 0

\* generate_action_grammar(acts) up to the while loop: the asserts, then the
\* locals.  The first call is given any of Inputs, a later call the sequence
\* the previous call returned.
Call ==
  /\ pc \in {"idle", "returned"}
  /\ calls < MaxCalls
  /\ \E acts \in (IF pc = "idle" THEN Inputs ELSE {new_actions}) :
        /\ actions' = acts
        /\ calls' = calls + 1
        /\ ix_at_call' = next_rule_name_ix
        /\ passes' = 0
        /\ IF ArgumentAccepted(acts)
           THEN /\ pc' = "loop"
                /\ all_rules' = <<>>
                /\ current_actions' = None
                /\ new_actions' = acts
                /\ rule_usage' = <<>>
                /\ action_usage' = <<>>
           ELSE /\ pc' = "rejected"
                /\ UNCHANGED <<all_rules, current_actions, new_actions,
                               rule_usage, action_usage>>
  /\ UNCHANGED <<k, next_rule_name_ix>>

\* one iteration of the while loop
LoopIteration ==
  /\ pc = "loop"
  /\ LoopContinues(new_actions, current_actions)
  /\ \E layer \in {generate_1_layer_of_rules(new_actions, k, next_rule_name_ix)} :
     \E conv \in {convert_a_string_using_reverse_rules(new_actions, layer.reverse_rules)} :
        /\ current_actions' = new_actions
        /\ all_rules' = layer.rules @@ all_rules
        /\ next_rule_name_ix' = layer.next_rule_name_ix
        /\ new_actions' = conv.new_string
        /\ rule_usage' = AccumulateUsage(rule_usage, conv.rules_usage_count)
  /\ passes' = passes + 1
  /\ UNCHANGED <<k, pc, actions, action_usage, calls, ix_at_call>>

\* the loop exits: action_usage is built and the triple is returned
Return ==
  /\ pc = "loop"
  /\ ~LoopContinues(new_actions, current_actions)
  /\ action_usage' = BuildActionUsage(rule_usage, all_rules, <<>>)
  /\ pc' = "returned"
  /\ UNCHANGED <<k, next_rule_name_ix, actions, all_rules, current_actions,
                 new_actions, rule_usage, passes, calls, ix_at_call>>

Next == Call \/ LoopIteration \/ Return

Spec == Init /\ [][Next]_vars

\* The code is sequential: a started call runs its loop to the return.
FairSpec == Spec /\ WF_vars(LoopIteration) /\ WF_vars(Return)

(***************************************************************************)
(* Properties                                                              *)
(***************************************************************************)
Range(seq) == {seq[i] : i \in 1..Len(seq)}

\* each symbol of seq expanded by convert_symbol_to_raw_actions, concatenated
RECURSIVE ExpandAll(_, _)
ExpandAll(seq, rules) ==
  IF seq = <<>> THEN <<>>
  ELSE convert_symbol_to_raw_actions(Head(seq), rules) \o ExpandAll(Tail(seq), rules)

\* the positions of seq holding sym
Positions(seq, sym) == {i \in 1..Len(seq) : seq[i] = sym}

\* the adjacent pair at (1-based) position i of seq
PairAt(seq, i) == <<seq[i], seq[i + 1]>>

RECURSIVE SumValues(_, _)
SumValues(f, S) ==
  IF S = {} THEN 0
  ELSE LET x == CHOOSE y \in S : TRUE IN f[x] + SumValues(f, S \ {x})

\* times rule name r fired in the rewrite passes of the current call
TimesFired(r) == IF r \in Keys(rule_usage) THEN ItemValue(rule_usage, r) ELSE 0

\* some rule of the table has another rule name in its right-hand side
NestedRule ==
  \E r \in DOMAIN all_rules : all_rules[r][1] \in DOMAIN all_rules
                              \/ all_rules[r][2] \in DOMAIN all_rules

----------------------------------------------------------------------------
\* C1: round trip.  When generate_action_grammar has returned, expanding each
\* symbol of the final sequence against the returned rule table and
\* concatenating the results gives exactly the list the call was given.
RoundTrip ==
  pc = "returned" => ExpandAll(new_actions, all_rules) = actions

\* a first call returned a sequence with nested rules from an input that
\* holds the end-of-episode marker
RoundTripWitness ==
  /\ pc = "returned" /\ calls = 1
  /\ NestedRule
  /\ end_of_episode_symbol \in Range(actions)
  /\ Len(new_actions) < Len(actions)

----------------------------------------------------------------------------
\* C2: termination.  A call that entered the while loop returns; it never
\* makes more passes than its input has symbols; and every pass either
\* strictly shortens the sequence or is the last one.
Termination ==
  /\ [](pc \in {"loop", "returned"} => passes <= Len(actions))
  /\ [][LoopIteration =>
          \/ Len(new_actions') < Len(new_actions)
          \/ ~LoopContinues(new_actions', current_actions')]_vars
  /\ (pc = "loop" ~> pc = "returned")

\* a call that returned after as many passes as its input has symbols
TerminationWitness ==
  pc = "returned" /\ Len(actions) >= 3 /\ passes = Len(actions)

----------------------------------------------------------------------------
\* C3: length monotonicity.  No pass lengthens the sequence; a pass that
\* mints a rule applies at least one substitution and shortens the sequence;
\* so the final sequence is no longer than the input and strictly shorter
\* when the returned rule table is not empty.
LengthMonotonic ==
  /\ [](pc = "returned" =>
          /\ Len(new_actions) <= Len(actions)
          /\ (DOMAIN all_rules # {} => Len(new_actions) < Len(actions)))
  /\ [][LoopIteration =>
          /\ Len(new_actions') <= Len(new_actions)
          /\ (DOMAIN all_rules' # DOMAIN all_rules =>
                /\ Len(new_actions') < Len(new_actions)
                /\ rule_usage' # rule_usage)]_vars

\* a call returned after at least two passes that minted rules
LengthMonotonicWitness ==
  pc = "returned" /\ passes >= 3 /\ DOMAIN all_rules # {}
  /\ Len(new_actions) < Len(actions)

----------------------------------------------------------------------------
\* C4: the end-of-episode marker never takes part in a pair.  When the call
\* has returned no rule has the marker in its right-hand side and the final
\* sequence holds as many markers as the input.
MarkerNeverPaired ==
  pc = "returned" =>
    /\ \A r \in DOMAIN all_rules :
         all_rules[r][1] # end_of_episode_symbol
         /\ all_rules[r][2] # end_of_episode_symbol
    /\ Cardinality(Positions(new_actions, end_of_episode_symbol))
         = Cardinality(Positions(actions, end_of_episode_symbol))

----------------------------------------------------------------------------
\* C5: every rule of the returned rule table fired more than k times in the
\* rewrite passes.
EveryRuleUsedMoreThanK ==
  pc = "returned" => \A r \in DOMAIN all_rules : TimesFired(r) > k

----------------------------------------------------------------------------
RECURSIVE CountedOccurrences(_, _, _, _)
CountedOccurrences(seq, p, i, justCounted) ==
  IF i > Len(seq) - 1 THEN 0
  ELSE IF PairAt(seq, i) = p /\ ~justCounted
  THEN 1 + CountedOccurrences(seq, p, i + 1, TRUE)
  ELSE CountedOccurrences(seq, p, i + 1, FALSE)

----------------------------------------------------------------------------
\* C7: the example of the header comment.  With k = 2 on a fresh engine
\* "abddddeabde" comes back as 7 symbols with exactly two rules, one
\* expanding to (a, b) and one to (d, e).
WorkedExample ==
  (pc = "returned" /\ calls = 1 /\ k = 2 /\ actions = Example) =>
    /\ Len(new_actions) = 7
    /\ Cardinality(DOMAIN all_rules) = 2
    /\ {convert_symbol_to_raw_actions(r, all_rules) : r \in DOMAIN all_rules}
         = {<<IntSym(0), IntSym(1)>>, <<IntSym(2), IntSym(3)>>}

----------------------------------------------------------------------------
\* C8: usage totals.  When the call has returned, the usage map holds, for
\* every rule that fired, the rule's count under the rule's fully expanded
\* tuple, and its values add up to the number of substitutions made (each
\* substitution shortened the sequence by one).
UsageTotals ==
  pc = "returned" =>
    /\ \A r \in Keys(rule_usage) :
         LET t == convert_symbol_to_raw_actions(r, all_rules)
         IN t \in DOMAIN action_usage /\ action_usage[t] = TimesFired(r)
    /\ SumValues(action_usage, DOMAIN action_usage)
         = Len(actions) - Len(new_actions)

\* a call returned with a nested rule among at least three rules that fired,
\* one of them more than once
UsageTotalsWitness ==
  /\ pc = "returned" /\ NestedRule
  /\ Cardinality(Keys(rule_usage)) >= 3
  /\ \E r \in Keys(rule_usage) :
       TimesFired(r) >= 2 /\ Len(convert_symbol_to_raw_actions(r, all_rules)) >= 3

----------------------------------------------------------------------------
\* C9 as stated: a second call on the sequence the first call returned
\* completes, mints no rule, returns the sequence unchanged and leaves the
\* rule-name counter where it was.
SecondCallCompletes ==
  calls >= 2 =>
    /\ pc # "rejected"
    /\ next_rule_name_ix = ix_at_call
    /\ (pc = "returned" => DOMAIN all_rules = {} /\ new_actions = actions)

\* C9 as amended: a second call on the sequence the first call returned
\* mints no rule and leaves the rule-name counter where it was; it is
\* rejected by the assert on actions[0] exactly when that sequence starts
\* with a rule name, and otherwise it completes after one pass and returns
\* the sequence unchanged.
SecondCallMintsNothing ==
  calls >= 2 =>
    /\ next_rule_name_ix = ix_at_call
    /\ (pc = "rejected" <=> ~IsInt(actions[1]))
    /\ passes <= 1
    /\ (pc = "loop" /\ passes = 1 => ~LoopContinues(new_actions, current_actions))
    /\ (pc = "returned" => DOMAIN all_rules = {} /\ new_actions = actions)

\* a second call completed on a sequence that holds a rule name
SecondCallWitness ==
  /\ calls = 2 /\ pc = "returned"
  /\ \E i \in 1..Len(actions) : actions[i].kind = "R"

----------------------------------------------------------------------------
\* The Layer Builder as section 4.1 of the specification gives it: step 5a
\* (the decrement of the pair at i-1, i) applies only when i-1 is an index.
SpecLayerStep(string, kk, ix, st) ==
  IF st.skip_next_symbol THEN [st EXCEPT !.skip_next_symbol = FALSE]
  ELSE IF Item(string, ix + 1) = end_of_episode_symbol THEN st
  ELSE LET pair == <<Item(string, ix), Item(string, ix + 1)>>
           counted ==
             IF pair # st.last_pair
             THEN [st EXCEPT !.pairs_of_symbols = Add(@, pair, 1), !.last_pair = pair]
             ELSE [st EXCEPT !.last_pair = None]
           decremented ==
             IF ix - 1 >= 0
             THEN Add(counted.pairs_of_symbols,
                      <<Item(string, ix - 1), Item(string, ix)>>, -1)
             ELSE counted.pairs_of_symbols
       IN IF Get(counted.pairs_of_symbols, pair) >= kk
          THEN LET marked == [counted EXCEPT !.pairs_of_symbols = decremented,
                                             !.skip_next_symbol = TRUE]
               IN IF pair \notin Values(marked.rules)
                  THEN [marked EXCEPT
                          !.rules = (RuleName(marked.next_rule_name_ix) :> pair) @@ @,
                          !.next_rule_name_ix = @ + 1]
                  ELSE marked
          ELSE counted

RECURSIVE SpecLayerScan(_, _, _, _)
SpecLayerScan(string, kk, ix, st) ==
  IF ix >= Len(string) - 1 THEN st
  ELSE Bind(SpecLayerStep(string, kk, ix, st),
            LAMBDA next : SpecLayerScan(string, kk, ix + 1, next))

SpecLayerRules(string, kk, ix0) ==
  SpecLayerScan(string, kk, 0,
                [pairs_of_symbols |-> <<>>, last_pair |-> None,
                 skip_next_symbol |-> FALSE, rules |-> <<>>,
                 next_rule_name_ix |-> ix0]).rules

\* C10: lookback-decrement guard.  On every sequence a pass is about to scan,
\* generate_1_layer_of_rules mints the rules of the specified Layer Builder,
\* whose decrement is skipped at i = 0.
LookbackGuarded ==
  (pc = "loop" /\ LoopContinues(new_actions, current_actions)) =>
    generate_1_layer_of_rules(new_actions, k, next_rule_name_ix).rules
      = SpecLayerRules(new_actions, k, next_rule_name_ix)

====
